---- MODULE Spec2Model ----
(***************************************************************************)
(* Model of matterbuild: the slash-command dispatcher (server/server.go)   *)
(* and the Jenkins job runner / release orchestrator (the jenkins file of  *)
(* package server).  Go strings that the code takes apart (version         *)
(* strings, command words, job names) are sequences of one-character       *)
(* strings; message texts that are only passed around are TLA+ strings.    *)
(***************************************************************************)
EXTENDS Integers, Sequences, FiniteSets, TLC

(***************************************************************************)
(* Bounds of the model.                                                    *)
(***************************************************************************)
\* the completion wait of RunJobWaitForResult is unbounded in the code; the
\* model stops a wait-loop after this many completion polls
MaxCompletionPolls == 4

(***************************************************************************)
(* Go string helpers (package strings, strconv, regexp).                   *)
(***************************************************************************)
Digits == {"0", "1", "2", "3", "4", "5", "6", "7", "8", "9"}

DigitVal(c) ==
  CASE c = "0" -> 0 [] c = "1" -> 1 [] c = "2" -> 2 [] c = "3" -> 3
    [] c = "4" -> 4 [] c = "5" -> 5 [] c = "6" -> 6 [] c = "7" -> 7
    [] c = "8" -> 8 [] c = "9" -> 9

DigitChar(n) ==
  CASE n = 0 -> "0" [] n = 1 -> "1" [] n = 2 -> "2" [] n = 3 -> "3"
    [] n = 4 -> "4" [] n = 5 -> "5" [] n = 6 -> "6" [] n = 7 -> "7"
    [] n = 8 -> "8" [] n = 9 -> "9"

\* s[from..to] (1-based, inclusive); empty when from > to
Slice(s, from, to) == [i \in 1..(to - from + 1) |-> s[from + i - 1]]

\* strings.HasSuffix
HasSuffix(s, suffix) ==
  /\ Len(s) >= Len(suffix)
  /\ Slice(s, Len(s) - Len(suffix) + 1, Len(s)) = suffix

\* position of the first occurrence of the one-character separator at or
\* after position i, 0 when there is none
RECURSIVE IndexFrom(_, _, _)
IndexFrom(s, sep, i) ==
  IF i > Len(s) THEN 0
  ELSE IF s[i] = sep THEN i
  ELSE IndexFrom(s, sep, i + 1)

\* strings.Split(s, sep) for a one-character separator
RECURSIVE Split(_, _)
Split(s, sep) ==
  LET k == IndexFrom(s, sep, 1) IN
  IF k = 0 THEN <<s>>
  ELSE <<Slice(s, 1, k - 1)>> \o Split(Slice(s, k + 1, Len(s)), sep)

\* strings.Join(parts, sep) for a one-character separator
RECURSIVE Join(_, _)
Join(parts, sep) ==
  IF Len(parts) = 0 THEN <<>>
  ELSE IF Len(parts) = 1 THEN parts[1]
  ELSE parts[1] \o <<sep>> \o Join(Tail(parts), sep)

\* strconv.Atoi on an unsigned decimal: [ok, val]; a string with a
\* character that is no digit, or the empty string, is an error
RECURSIVE AtoiVal(_)
AtoiVal(s) ==
  IF Len(s) = 0 THEN 0
  ELSE 10 * AtoiVal(Slice(s, 1, Len(s) - 1)) + DigitVal(s[Len(s)])

Atoi(s) ==
  IF Len(s) > 0 /\ \A i \in 1..Len(s) : s[i] \in Digits
  THEN [ok |-> TRUE, val |-> AtoiVal(s)]
  ELSE [ok |-> FALSE, val |-> 0]

\* strconv.Itoa on a natural number
RECURSIVE Itoa(_)
Itoa(n) ==
  IF n < 10 THEN <<DigitChar(n)>>
  ELSE Itoa(n \div 10) \o <<DigitChar(n % 10)>>

(***************************************************************************)
(* Regular expressions, as package regexp matches them.  A pattern is a    *)
(* sequence of elements: "digits" is [0-9]+, "any" is the metacharacter .  *)
(* (any character but a newline), "lit" is one literal character.  The     *)
(* match is anchored at both ends (^ ... $).                               *)
(***************************************************************************)
RxDigits == [kind |-> "digits", ch |-> ""]
RxAny == [kind |-> "any", ch |-> ""]
RxLit(c) == [kind |-> "lit", ch |-> c]

RECURSIVE RxMatchFrom(_, _, _, _)
RxMatchFrom(pat, pi, s, si) ==
  IF pi > Len(pat) THEN si = Len(s) + 1
  ELSE
    LET e == pat[pi] IN
    CASE e.kind = "lit" ->
           si <= Len(s) /\ s[si] = e.ch /\ RxMatchFrom(pat, pi + 1, s, si + 1)
      [] e.kind = "any" ->
           si <= Len(s) /\ s[si] # "\n" /\ RxMatchFrom(pat, pi + 1, s, si + 1)
      [] e.kind = "digits" ->
           \E k \in 1..(Len(s) - si + 1) :
             /\ \A j \in si..(si + k - 1) : s[j] \in Digits
             /\ RxMatchFrom(pat, pi + 1, s, si + k)

MatchString(pat, s) == RxMatchFrom(pat, 1, s, 1)

\* regexp.MustCompile("^[0-9]+.[0-9]+.[0-9]+$"): the dots are not escaped
finalVersionRxp == <<RxDigits, RxAny, RxDigits, RxAny, RxDigits>>

\* regexp.MustCompile("^[0-9]+.[0-9]+.[0-9]+-rc[0-9]+$")
rcRxp ==
  <<RxDigits, RxAny, RxDigits, RxAny, RxDigits,
    RxLit("-"), RxLit("r"), RxLit("c"), RxDigits>>

\* strings.Fields(strings.TrimSpace(s)): the words of s between spaces
Fields(s) == SelectSeq(Split(s, " "), LAMBDA w : Len(w) > 0)

(***************************************************************************)
(* Words of the command language and names of the Jenkins jobs.            *)
(***************************************************************************)
CutWord == <<"c", "u", "t">>
RunJobWord == <<"r", "u", "n", "j", "o", "b">>
BogusWord == <<"b", "o", "g", "u", "s">>
Master == <<"m", "a", "s", "t", "e", "r">>
LockPootleWord == <<"l", "o", "c", "k", "p", "o", "o", "t", "l", "e">>
SetCIWord == <<"s", "e", "t", "c", "i">>
GetPootleWord == <<"g", "e", "t", "p", "o", "o", "t", "l", "e">>
PltFlag == <<"-", "-", "p", "l", "t">>
WebFlag == <<"-", "-", "w", "e", "b">>
MobileFlag == <<"-", "-", "m", "o", "b", "i", "l", "e">>
BackportFlag == <<"-", "-", "b", "a", "c", "k", "p", "o", "r", "t">>
DryrunFlag == <<"-", "-", "d", "r", "y", "r", "u", "n">>

\* Cfg: the configuration LoadConfig reads (a test configuration)
CfgAllowedTokens == {"token-1"}
CfgAllowedUsers == {"alice", "bob"}
CfgReleaseUsers == {"alice"}
CfgPreChecksJob == <<"p", "r", "e", "c", "h", "e", "c", "k", "s">>
CfgReleaseJob == <<"r", "e", "l", "e", "a", "s", "e">>
CfgPreReleaseJob == <<"p", "r", "e", "r", "e", "l", "e", "a", "s", "e">>
CfgCIServerJobs == << <<"c", "i", "1">>, <<"c", "i", "2">> >>
\* "build-pushes/job/release-gitlab.mattermost.com"
GitlabJob == <<"g", "i", "t", "l", "a", "b">>
CfgTranslationServerJob == <<"p", "o", "o", "t", "l", "e">>
CfgCheckTranslationServerJob == <<"p", "o", "o", "t", "l", "e", "-", "c", "h", "e", "c", "k">>
\* the job a runjob command names
UserJob == <<"n", "i", "g", "h", "t", "l", "y">>

JobNames ==
  {CfgPreChecksJob, CfgReleaseJob, CfgPreReleaseJob, GitlabJob, UserJob,
   CfgTranslationServerJob, CfgCheckTranslationServerJob}
    \cup {CfgCIServerJobs[i] : i \in 1..Len(CfgCIServerJobs)}

\* gojenkins.STATUS_SUCCESS and the other results Jenkins reports
STATUS_SUCCESS == "SUCCESS"
JenkinsResults == {"SUCCESS", "FAILURE", "UNSTABLE", "ABORTED"}

(***************************************************************************)
(* Inputs: the version arguments, command texts and requests tried.        *)
(***************************************************************************)
RcSuffix(n) == <<"-", "r", "c">> \o n

\* versions of the documented grammar, MAJOR.MINOR.PATCH and
\* MAJOR.MINOR.PATCH-rcN
GrammarVersions ==
  { <<"5", ".", "3", ".">> \o patch \o suffix :
      patch \in {<<"0">>, <<"1">>, <<"1", "0">>},
      suffix \in {<<>>, RcSuffix(<<"1">>), RcSuffix(<<"2">>)} }
    \cup { <<"5", ".", "9", ".", "0">> }

\* arguments outside the grammar
OtherVersions ==
  { <<"v", "5", ".", "3">>,
    <<"5", ".", "3">>,
    <<"5", ".", "3", ".", "0", ".", "1">>,
    <<"5", ".", "3", ".", "0", "-", "r", "c">>,
    <<"5", "x", "3", "x", "0">>,
    <<"1", "2", "3", "4", "5">>,
    <<"5", "x", "3", ".", "0", "-", "r", "c", "1">>,
    <<"5", "-", "3", "-", "0", "-", "r", "c", "1">> }

VersionArgs == GrammarVersions \cup OtherVersions

FlagWords == {<<>>, <<BackportFlag>>, <<DryrunFlag>>, <<BackportFlag, DryrunFlag>>}

\* the texts of the translation commands
TranslationTexts ==
  { LockPootleWord, GetPootleWord,
    Join(<<LockPootleWord, PltFlag, Master>>, " "),
    Join(<<LockPootleWord, WebFlag>>, " ") }

Texts ==
  { <<>>, CutWord, RunJobWord, BogusWord, Join(<<RunJobWord, UserJob>>, " ") }
    \cup TranslationTexts
    \cup { SetCIWord, Join(<<SetCIWord, Master>>, " "),
           Join(<<SetCIWord, <<"r", "e", "l", "e", "a", "s", "e", "-", "5", ".", "3">>>>, " ") }
    \cup { Join(<<CutWord, v>> \o f, " ") : v \in VersionArgs, f \in FlagWords }

\* texts sent under every combination of token, user and command field
AuthTexts ==
  { <<>>, BogusWord, Join(<<RunJobWord, UserJob>>, " ") }
    \cup { Join(<<CutWord, <<"5", ".", "3", ".", "0", "-", "r", "c", "1">>>> \o f, " ") :
             f \in {<<>>, <<BackportFlag>>} }

\* the decoded form of a request (MMSlashCommand); parseOK is false when
\* ParseSlashCommand fails.  Every text is sent by a release user; the
\* texts of AuthTexts are sent by every caller.
Requests ==
  [parseOK : {TRUE},
   Token : {"token-1", "wrong"},
   UserId : {"alice", "bob", "mallory"},
   Command : {"cut", "matterbuild"},
   Text : AuthTexts]
  \cup
  [parseOK : {TRUE}, Token : {"token-1"}, UserId : {"alice"},
   Command : {"matterbuild"}, Text : Texts]
  \cup
  [parseOK : {FALSE}, Token : {""}, UserId : {""}, Command : {""}, Text : {<<>>}]

(***************************************************************************)
(* AppError.  An error value is the chain of its descriptions, outermost   *)
(* first; Nil is the nil error.  Each link is [desc, arg]: the fixed text  *)
(* and the string the code appends to it.                                  *)
(***************************************************************************)
Nil == <<>>

ErrItem(desc, arg) == [desc |-> desc, arg |-> arg]

\* NewError(description, parent) with parent an error value (nil or not)
NewError(desc, arg, parent) == <<ErrItem(desc, arg)>> \o parent

\* NewError(description, err) where err is a *AppError variable: stored in
\* the error interface, a nil *AppError is a non-nil Parent whose Error()
\* is "No Error (nil)"
NewErrorWrapping(desc, arg, apperr) ==
  <<ErrItem(desc, arg)>>
    \o (IF apperr = Nil THEN <<ErrItem("No Error (nil)", <<>>)>> ELSE apperr)

\* the cause a failed remote call reports (an error of the Jenkins client)
RemoteCause == <<ErrItem("remote failure", <<>>)>>

(***************************************************************************)
(* State.                                                                  *)
(***************************************************************************)
Tasks == {"request", "background"}

VARIABLES
  request,     \* the incoming request (form fields)
  hpc,         \* position of the request's task in slashCommandHandler
  ranHandler,  \* the command whose RunE was called ("" when none)
  cut,         \* locals of cutReleaseCommandF and CutRelease
  outBuf,      \* what cobra printed to the output buffer
  responses,   \* payloads written to the http.ResponseWriter
  probes,      \* URLs requested with http.Get
  calls,       \* requests sent to Jenkins, in order
  builds,      \* Jenkins: the builds of each job, by build number
  configs,     \* Jenkins: the configuration of each job
  rj,          \* the RunJobWaitForResult frame of each task
  bpc,         \* position of the goroutine CutRelease starts
  ci,          \* index of SetCIServerBranch's loop in the goroutine
  steps,       \* the functions CutRelease and its goroutine have called
  releaseRet   \* result, err of the release job as the goroutine got them

reqVars == <<request, hpc, ranHandler, cut, outBuf, responses, probes>>
jenkinsVars == <<calls, builds, configs>>
bgVars == <<bpc, ci, steps, releaseRet>>
vars == <<request, hpc, ranHandler, cut, outBuf, responses, probes,
          calls, builds, configs, rj, bpc, ci, steps,
          releaseRet>>

\* a request sent to Jenkins
Call(op, job, arg) == [op |-> op, job |-> job, arg |-> arg]

(***************************************************************************)
(* RunJobWaitForResult(name, parameters), one frame per task.              *)
(***************************************************************************)
IdleFrame ==
  [pc |-> "idle", name |-> <<>>, params |-> <<>>, newBuildNumber |-> 0,
   invoked |-> 0, tries |-> 0, status |-> 0, err3 |-> FALSE,
   raw |-> [building |-> FALSE, result |-> ""],
   reachPolls |-> <<>>, complPolls |-> 0, runningSeen |-> 0, sleeps |-> <<>>,
   result |-> "", err |-> Nil]

\* the frame at the entry of RunJobWaitForResult
EntryFrame(name, params) ==
  [IdleFrame EXCEPT !.pc = "getJob", !.name = name, !.params = params]

\* the frame after `return result, err`
Return(f, result, err) ==
  [f EXCEPT !.pc = "returned", !.result = result, !.err = err]

\* what Jenkins answers to a poll of build number n of a job: "ok" is
\* status 200, "notfound" a status other than 200, "err" a failed request.
\* A build that is still queued has no page yet.
PollAnswers(job, n) ==
  IF n \in 1..Len(builds[job]) /\ builds[job][n].state # "queued"
  THEN {"ok", "err"}
  ELSE {"notfound", "err"}

\* build.Poll(): status, error and, on success, the refreshed build.Raw
Poll(f, answer) ==
  LET b == builds[f.name][f.newBuildNumber] IN
  [f EXCEPT
     !.status = CASE answer = "ok" -> 200
                  [] answer = "notfound" -> 404
                  [] OTHER -> 0,
     !.err3 = (answer = "err"),
     !.raw = IF answer = "ok"
             THEN [building |-> (b.state = "running"), result |-> b.result]
             ELSE @]

\* a poll of the completion wait: the frame also counts the polls made and
\* the times Jenkins reported the build as running
CompletionPoll(f, answer) ==
  [Poll(f, answer) EXCEPT
     !.complPolls = @ + 1,
     !.runningSeen = IF answer = "ok" /\ Poll(f, answer).raw.building
                     THEN @ + 1 ELSE @]

\* variant: the wait-loop tests the flag the wrong way round
IsRunning_Negated(f) == ~f.raw.building

\* build.IsRunning() as the loop of RunJobWaitForResult uses it: the
\* building flag of the build as last polled
IsRunning(f) == f.raw.building

\* build.GetResult()
GetResult(f) == f.raw.result

\* the loop condition of the reachability loop: err3 != nil || status != 200
Unreachable(f) == f.err3 \/ f.status # 200

\* variant: the loop gives up one attempt earlier
MaxTries_Early == 5 - 1

\* `tries >= 5`: the attempt at which the reachability loop gives up
MaxTries == 5

\* job, err := getJob(name); newBuildNumber := job.Raw.NextBuildNumber
RJW_GetJob(t) ==
  /\ rj[t].pc = "getJob"
  /\ calls' = Append(calls, Call("getJob", rj[t].name, <<>>))
  /\ \/ rj' = [rj EXCEPT ![t] =
                 Return(@, "", NewError("Unable to get job", <<>>, RemoteCause))]
     \/ rj' = [rj EXCEPT ![t] =
                 [@ EXCEPT !.pc = "invoke",
                           !.newBuildNumber = Len(builds[rj[t].name]) + 1]]
  /\ UNCHANGED <<reqVars, builds, configs, bgVars>>

\* variant: after a failed invocation the build is polled once
RJW_Invoke_PollsOnFailure(t) ==
  /\ rj[t].pc = "invoke"
  /\ calls' = Append(calls, Call("invoke", rj[t].name, rj[t].params))
  /\ \/ /\ rj' = [rj EXCEPT ![t] =
                    Return([@ EXCEPT !.reachPolls = <<FALSE>>], "",
                           NewErrorWrapping("Unable to envoke job.", <<>>, Nil))]
        /\ UNCHANGED builds
     \/ /\ builds' = [builds EXCEPT ![rj[t].name] =
                        Append(@, [state |-> "queued", result |-> ""])]
        /\ rj' = [rj EXCEPT ![t] =
                    [@ EXCEPT !.pc = "poll",
                              !.invoked = Len(builds[rj[t].name]) + 1]]
  /\ UNCHANGED <<reqVars, configs, bgVars>>

\* _, err2 := job.InvokeSimple(parameters): on failure the error returned
\* wraps err (the nil *AppError of getJob), not err2
RJW_Invoke(t) ==
  /\ rj[t].pc = "invoke"
  /\ calls' = Append(calls, Call("invoke", rj[t].name, rj[t].params))
  /\ \/ /\ rj' = [rj EXCEPT ![t] =
                    Return(@, "", NewErrorWrapping("Unable to envoke job.", <<>>, Nil))]
        /\ UNCHANGED builds
     \/ /\ builds' = [builds EXCEPT ![rj[t].name] =
                        Append(@, [state |-> "queued", result |-> ""])]
        /\ rj' = [rj EXCEPT ![t] =
                    [@ EXCEPT !.pc = "poll",
                              !.invoked = Len(builds[rj[t].name]) + 1]]
  /\ UNCHANGED <<reqVars, configs, bgVars>>

\* tries := 1; status, err3 = build.Poll()   (the poll before the loop)
RJW_FirstPoll(t) ==
  /\ rj[t].pc = "poll"
  /\ \E a \in PollAnswers(rj[t].name, rj[t].newBuildNumber) :
       rj' = [rj EXCEPT ![t] =
                [Poll(@, a) EXCEPT !.pc = "reach", !.tries = 1,
                                   !.reachPolls = Append(@, a = "ok")]]
  /\ UNCHANGED <<reqVars, jenkinsVars, bgVars>>

\* one iteration of `for ; err3 != nil || status != 200; tries += 1`
RJW_Retry(t) ==
  /\ rj[t].pc = "reach"
  /\ Unreachable(rj[t])
  /\ \E a \in PollAnswers(rj[t].name, rj[t].newBuildNumber) :
       LET f == [Poll(rj[t], a) EXCEPT !.reachPolls = Append(@, a = "ok")] IN
       rj' = [rj EXCEPT ![t] =
                IF f.tries >= MaxTries
                THEN Return(f, "",
                       NewError("Unable to get build for pre-checks job: ",
                                Itoa(f.newBuildNumber),
                                IF f.err3 THEN RemoteCause ELSE Nil))
                ELSE [f EXCEPT !.sleeps = Append(@, f.tries),
                               !.tries = @ + 1]]
  /\ UNCHANGED <<reqVars, jenkinsVars, bgVars>>

\* the loop is left: time.Sleep(time.Second * 5); build.Poll()
RJW_Reached(t) ==
  /\ rj[t].pc = "reach"
  /\ ~Unreachable(rj[t])
  /\ \E a \in PollAnswers(rj[t].name, rj[t].newBuildNumber) :
       rj' = [rj EXCEPT ![t] =
                [CompletionPoll(@, a) EXCEPT !.pc = "wait",
                                             !.sleeps = Append(@, 5)]]
  /\ UNCHANGED <<reqVars, jenkinsVars, bgVars>>

\* for build.IsRunning() { time.Sleep(time.Second); build.Poll() }
RJW_Wait(t) ==
  /\ rj[t].pc = "wait"
  /\ IsRunning(rj[t])
  /\ rj[t].complPolls < MaxCompletionPolls
  /\ \E a \in PollAnswers(rj[t].name, rj[t].newBuildNumber) :
       rj' = [rj EXCEPT ![t] =
                [CompletionPoll(@, a) EXCEPT !.sleeps = Append(@, 1)]]
  /\ UNCHANGED <<reqVars, jenkinsVars, bgVars>>

\* variant: the call returns from the wait whatever the build is doing
RJW_Return_Early(t) ==
  /\ rj[t].pc = "wait"
  /\ rj' = [rj EXCEPT ![t] = Return(@, GetResult(@), Nil)]
  /\ UNCHANGED <<reqVars, jenkinsVars, bgVars>>

\* return build.GetResult(), nil
RJW_Return(t) ==
  /\ rj[t].pc = "wait"
  /\ ~IsRunning(rj[t])
  /\ rj' = [rj EXCEPT ![t] = Return(@, GetResult(@), Nil)]
  /\ UNCHANGED <<reqVars, jenkinsVars, bgVars>>

(***************************************************************************)
(* Jenkins: a queued build starts, a running build finishes.  Only the     *)
(* builds of a job some task is waiting on are followed: the others are    *)
(* never looked at again.                                                  *)
(***************************************************************************)
Watched(job) ==
  \E t \in Tasks : rj[t].name = job /\ rj[t].pc \notin {"idle", "returned"}

BuildStart ==
  \E job \in JobNames :
    /\ Watched(job)
    /\ \E n \in 1..Len(builds[job]) :
         /\ builds[job][n].state = "queued"
         /\ builds' = [builds EXCEPT ![job][n].state = "running"]
    /\ UNCHANGED <<reqVars, calls, configs, rj, bgVars>>

BuildFinish ==
  \E job \in JobNames :
    /\ Watched(job)
    /\ \E n \in 1..Len(builds[job]), r \in JenkinsResults :
         /\ builds[job][n].state = "running"
         /\ builds' = [builds EXCEPT ![job][n] =
                         [state |-> "finished", result |-> r]]
    /\ UNCHANGED <<reqVars, calls, configs, rj, bgVars>>

(***************************************************************************)
(* Responses (WriteErrorResponse, WriteResponse, WriteEnrichedResponse):   *)
(* every one is written with http.StatusOK.                                *)
(***************************************************************************)
IN_CHANNEL == "in_channel"
EPHEMERAL == "ephemeral"

ErrorResponse(err) ==
  [status |-> 200, kind |-> "standard", title |-> "", text |-> err,
   style |-> EPHEMERAL]

EnrichedResponse(title, text, style) ==
  [status |-> 200, kind |-> "enriched", title |-> title, text |-> text,
   style |-> style]

(***************************************************************************)
(* checkSlashPermissions                                                   *)
(***************************************************************************)
TokenAllowed(command) == command.Token \in CfgAllowedTokens

UserAllowed(command) == command.UserId \in CfgAllowedUsers

\* the release check applies when the Command field of the form is "cut"
ReleaseCheckApplies(command) == command.Command = "cut"

\* variant: the user check made before the token check
checkSlashPermissions_UserFirst(command) ==
  IF ~UserAllowed(command)
  THEN NewError("You don't have permissions to use this command.", <<>>, Nil)
  ELSE IF ~TokenAllowed(command)
  THEN NewError("Token for slash command is incorrect", <<>>, Nil)
  ELSE IF ReleaseCheckApplies(command) /\ command.UserId \notin CfgReleaseUsers
  THEN NewError("You don't have permissions to use this command.", <<>>, Nil)
  ELSE Nil

checkSlashPermissions(command) ==
  IF ~TokenAllowed(command)
  THEN NewError("Token for slash command is incorrect", <<>>, Nil)
  ELSE IF ~UserAllowed(command)
  THEN NewError("You don't have permissions to use this command.", <<>>, Nil)
  ELSE IF ReleaseCheckApplies(command) /\ command.UserId \notin CfgReleaseUsers
  THEN NewError("You don't have permissions to use this command.", <<>>, Nil)
  ELSE Nil

(***************************************************************************)
(* cobra: rootCmd.SetArgs(words); rootCmd.Execute().  The first word       *)
(* selects the subcommand; of the remaining words the flags the subcommand *)
(* declares are taken out and the rest are its args.                       *)
(***************************************************************************)
IsFlag(w) == Len(w) > 0 /\ w[1] = "-"

\* the flags of a subcommand that take a value (Flags().String)
StringFlags(name) ==
  IF name = "lockpootle" THEN {PltFlag, WebFlag, MobileFlag} ELSE {}

\* the word at i is the value of the string flag before it (the texts
\* tried give no flag as the value of another)
IsValue(rest, i, sf) == i > 1 /\ rest[i - 1] \in sf

Dispatch(words) ==
  IF Len(words) = 0
  THEN [cmd |-> "help", args |-> <<>>, flags |-> {}, strings |-> <<>>]
  ELSE
    LET rest == Tail(words)
        name == CASE words[1] = CutWord -> "cut"
                  [] words[1] = RunJobWord -> "runjob"
                  [] words[1] = SetCIWord -> "setci"
                  [] words[1] = LockPootleWord -> "lockpootle"
                  [] words[1] = GetPootleWord -> "getpootle"
                  [] OTHER -> "unknown"
        declared == IF name = "cut" THEN {BackportFlag, DryrunFlag} ELSE {}
        sf == StringFlags(name)
        flagAt == {j \in 1..Len(rest) : IsFlag(rest[j]) /\ ~IsValue(rest, j, sf)}
        flags == {rest[i] : i \in flagAt}
        argAt == {j \in 1..Len(rest) : ~IsFlag(rest[j]) /\ ~IsValue(rest, j, sf)}
        needsArg == Len(rest) \in flagAt /\ rest[Len(rest)] \in sf
        at(f) == {j \in flagAt : rest[j] = f}
        strings == [f \in sf |->
                      IF at(f) = {} THEN <<>>
                      ELSE rest[(CHOOSE j \in at(f) : \A k \in at(f) : k <= j) + 1]]
    IN IF name # "unknown" /\ (~(flags \subseteq declared \cup sf) \/ needsArg)
       THEN [cmd |-> "badflag", args |-> <<>>, flags |-> flags, strings |-> <<>>]
       ELSE [cmd |-> name,
             args |-> IF sf = {}
                      THEN SelectSeq(rest, LAMBDA w : ~IsFlag(w))
                      ELSE [k \in 1..Cardinality(argAt) |->
                              rest[CHOOSE j \in argAt :
                                     Cardinality({i \in argAt : i <= j}) = k]],
             flags |-> flags,
             strings |-> strings]

\* what cobra prints when Execute fails: the error and the usage hint
PrintedError(err) == <<ErrItem("Error: ", <<>>)>> \o err \o <<ErrItem("usage", <<>>)>>

\* variant: the output buffer is sent after every command
Finish_Always(resps, err, out) ==
  Append(resps, EnrichedResponse("Information", out, EPHEMERAL))

\* variant: the output buffer is sent only when Execute returned no error
Finish_NoErrorCase(resps, err, out) ==
  IF err = Nil /\ Len(out) > 0
  THEN Append(resps, EnrichedResponse("Information", out, EPHEMERAL))
  ELSE resps

\* the end of slashCommandHandler: the output buffer is sent when Execute
\* returned an error or printed something
Finish(resps, err, out) ==
  IF err # Nil \/ Len(out) > 0
  THEN Append(resps, EnrichedResponse("Information", out, EPHEMERAL))
  ELSE resps

(***************************************************************************)
(* cutReleaseCommandF: the version argument                                *)
(***************************************************************************)
\* variant: the suffix tested is "0", not ".0"
ParseVersion_AnyZero(versionString) ==
  IF MatchString(rcRxp, versionString)
  THEN LET split == Split(versionString, "-") IN
       IF Len(split) # 2
       THEN [status |-> "cantsplit", releasePart |-> <<>>, rcPart |-> <<>>,
             isFirstMinorRelease |-> FALSE]
       ELSE [status |-> "ok", releasePart |-> split[1], rcPart |-> split[2],
             isFirstMinorRelease |->
               (split[2] = <<"r", "c", "1">> /\ HasSuffix(split[1], <<"0">>))]
  ELSE IF MatchString(finalVersionRxp, versionString)
  THEN [status |-> "ok", releasePart |-> versionString, rcPart |-> <<>>,
        isFirstMinorRelease |-> FALSE]
  ELSE [status |-> "bad", releasePart |-> <<>>, rcPart |-> <<>>,
        isFirstMinorRelease |-> FALSE]

\* the split into release part and rc part, and isFirstMinorRelease
ParseVersion(versionString) ==
  IF MatchString(rcRxp, versionString)
  THEN LET split == Split(versionString, "-") IN
       IF Len(split) # 2
       THEN [status |-> "cantsplit", releasePart |-> <<>>, rcPart |-> <<>>,
             isFirstMinorRelease |-> FALSE]
       ELSE [status |-> "ok", releasePart |-> split[1], rcPart |-> split[2],
             isFirstMinorRelease |->
               (split[2] = <<"r", "c", "1">> /\ HasSuffix(split[1], <<".", "0">>))]
  ELSE IF MatchString(finalVersionRxp, versionString)
  THEN [status |-> "ok", releasePart |-> versionString, rcPart |-> <<>>,
        isFirstMinorRelease |-> FALSE]
  ELSE [status |-> "bad", releasePart |-> <<>>, rcPart |-> <<>>,
        isFirstMinorRelease |-> FALSE]

\* variant: the patch number is not reset
OneReleaseUp_KeepPatch(releasePart) ==
  LET splitRelease == Split(releasePart, ".") IN
  IF Len(splitRelease) # 3 THEN [ok |-> FALSE, value |-> <<>>]
  ELSE LET intVer == Atoi(splitRelease[2]) IN
       IF ~intVer.ok THEN [ok |-> FALSE, value |-> <<>>]
       ELSE [ok |-> TRUE,
             value |-> Join(<<splitRelease[1], Itoa(intVer.val + 1),
                              splitRelease[3]>>, ".")]

\* the release one minor version up, MAJOR.(MINOR+1).0
OneReleaseUp(releasePart) ==
  LET splitRelease == Split(releasePart, ".") IN
  IF Len(splitRelease) # 3 THEN [ok |-> FALSE, value |-> <<>>]
  ELSE LET intVer == Atoi(splitRelease[2]) IN
       IF ~intVer.ok THEN [ok |-> FALSE, value |-> <<>>]
       ELSE [ok |-> TRUE,
             value |-> Join(<<splitRelease[1], Itoa(intVer.val + 1), <<"0">>>>, ".")]

\* "http://releases.mattermost.com/" + v + "-rc1/mattermost-" + v +
\* "-rc1-linux-amd64.tar.gz"
S3URL(v) ==
  [host |-> "http://releases.mattermost.com/", dir |-> v \o RcSuffix(<<"1">>),
   file |-> <<"mattermost-">> \o v \o RcSuffix(<<"1">>) \o <<"-linux-amd64.tar.gz">>]

NoCut ==
  [versionString |-> <<>>, releasePart |-> <<>>, rcPart |-> <<>>,
   isFirstMinorRelease |-> FALSE, backport |-> FALSE, dryrun |-> FALSE,
   oneReleaseUp |-> <<>>, releaseBranch |-> <<>>, fullRelease |-> <<>>,
   rcpart |-> <<>>, isFirstMinorReleaseStr |-> "",
   prechecks |-> [result |-> "", err |-> Nil], ret |-> Nil]

(***************************************************************************)
(* slashCommandHandler up to the first remote call of the command.         *)
(* The result is the position the task is left at and what it has written. *)
(***************************************************************************)
\* the handler is over: Execute returned err after RunE wrote resps
Ended(handler, c, resps, err) ==
  LET out == IF err # Nil THEN PrintedError(err) ELSE <<>> IN
  [hpc |-> "done", ranHandler |-> handler, cut |-> c, outBuf |-> out,
   responses |-> Finish(resps, err, out)]

\* the handler goes on at position pc of the command's function
Continue(handler, c, pc) ==
  [hpc |-> pc, ranHandler |-> handler, cut |-> c, outBuf |-> <<>>,
   responses |-> <<>>]

\* cutReleaseCommandF(args, w, command, backport, dryrun) up to http.Get
\* (or, with --backport, up to CutRelease)
cutReleaseCommandF(args, backport, dryrun) ==
  IF Len(args) < 1
  THEN Ended("cut", NoCut, <<>>,
             NewError("You need to specifiy a release version.", <<>>, Nil))
  ELSE
    LET pv == ParseVersion(args[1])
        c == [NoCut EXCEPT !.versionString = args[1],
                           !.releasePart = pv.releasePart,
                           !.rcPart = pv.rcPart,
                           !.isFirstMinorRelease = pv.isFirstMinorRelease,
                           !.backport = backport,
                           !.dryrun = dryrun]
    IN
    IF pv.status = "cantsplit"
    THEN Ended("cut", c,
               <<ErrorResponse(NewError("Bad version argument. Can't split on -.", <<>>, Nil))>>,
               Nil)
    ELSE IF pv.status = "bad"
    THEN Ended("cut", c,
               <<ErrorResponse(NewError("Bad version argument. Typo?", <<>>, Nil))>>,
               Nil)
    ELSE IF ~backport
    THEN LET up == OneReleaseUp(pv.releasePart) IN
         IF ~up.ok
         THEN Ended("cut", c,
                    <<ErrorResponse(NewError("Bad version argument.", <<>>, Nil))>>,
                    Nil)
         ELSE Continue("cut", [c EXCEPT !.oneReleaseUp = up.value], "probe")
    ELSE Continue("cut", c, "CutRelease")

\* runJobCmdF(args, w, command) up to RunJob
runJobCmdF(args) ==
  IF Len(args) < 1
  THEN Ended("runjob", NoCut, <<>>, NewError("You need to specify a job", <<>>, Nil))
  ELSE Continue("runjob", NoCut, "RunJob")

\* setCIBranchCmdF(args, w, command) up to SetCIServerBranch
setCIBranchCmdF(args) ==
  IF Len(args) < 1
  THEN Ended("setci", NoCut, <<>>, NewError("You need to specify a branch", <<>>, Nil))
  ELSE Continue("setci", NoCut, "setci")

\* lockTranslationServerCommandF(args, w, command, plt, web, mobile) up to
\* RunJobWaitForResult
lockTranslationServerCommandF(plt, web, mobile) ==
  IF plt = <<>> /\ web = <<>> /\ mobile = <<>>
  THEN Ended("lockpootle", NoCut,
             <<EnrichedResponse("Translation Server Update",
                 <<ErrItem("You need to set at least one branch to lock. Please check the help.",
                           <<>>)>>,
                 IN_CHANNEL)>>,
             Nil)
  ELSE Continue("lockpootle", NoCut, "lockpootle")

\* checkBranchTranslationCmdF(args, w, command) up to RunJobWaitForResult
checkBranchTranslationCmdF == Continue("getpootle", NoCut, "getpootle")

\* rootCmd.Execute()
Execute(words) ==
  LET d == Dispatch(words) IN
  CASE d.cmd = "help" ->
         [hpc |-> "done", ranHandler |-> "", cut |-> NoCut,
          outBuf |-> <<ErrItem("help", <<>>)>>,
          responses |-> Finish(<<>>, Nil, <<ErrItem("help", <<>>)>>)]
    [] d.cmd = "unknown" ->
         Ended("", NoCut, <<>>, <<ErrItem("unknown command ", words[1])>>)
    [] d.cmd = "badflag" ->
         Ended("", NoCut, <<>>, <<ErrItem("unknown flag", <<>>)>>)
    [] d.cmd = "cut" ->
         cutReleaseCommandF(d.args, BackportFlag \in d.flags, DryrunFlag \in d.flags)
    [] d.cmd = "runjob" ->
         runJobCmdF(d.args)
    [] d.cmd = "setci" ->
         setCIBranchCmdF(d.args)
    [] d.cmd = "lockpootle" ->
         lockTranslationServerCommandF(d.strings[PltFlag], d.strings[WebFlag],
                                       d.strings[MobileFlag])
    [] d.cmd = "getpootle" ->
         checkBranchTranslationCmdF

\* ParseSlashCommand, checkSlashPermissions, then the command
HandlerEntry(req) ==
  IF ~req.parseOK
  THEN [hpc |-> "done", ranHandler |-> "", cut |-> NoCut, outBuf |-> <<>>,
        responses |->
          <<ErrorResponse(NewError("Unable to parse incoming slash command info",
                                   <<>>, RemoteCause))>>]
  ELSE LET perr == checkSlashPermissions(req) IN
       IF perr # Nil
       THEN [hpc |-> "done", ranHandler |-> "", cut |-> NoCut, outBuf |-> <<>>,
             responses |-> <<ErrorResponse(perr)>>]
       ELSE Execute(Fields(req.Text))

slashCommandHandler ==
  /\ hpc = "start"
  /\ LET e == HandlerEntry(request) IN
       /\ hpc' = e.hpc
       /\ ranHandler' = e.ranHandler
       /\ cut' = e.cut
       /\ outBuf' = e.outBuf
       /\ responses' = e.responses
  /\ UNCHANGED <<request, probes, jenkinsVars, rj, bgVars>>

\* if resp, err := http.Get(s3URL); err == nil && resp.StatusCode == 200
ProbeAnswers == {"err", "200", "404"}

cutProbe ==
  /\ hpc = "probe"
  /\ \E a \in ProbeAnswers :
       /\ probes' = Append(probes, [url |-> S3URL(cut.oneReleaseUp), answer |-> a])
       /\ IF a = "200"
          THEN /\ responses' =
                    Finish(Append(responses,
                             ErrorResponse(NewError(
                               "Are you sure this isn't a backport release? I see a future release on s3.",
                               cut.oneReleaseUp, Nil))),
                           Nil, outBuf)
               /\ hpc' = "done"
          ELSE /\ hpc' = "CutRelease"
               /\ UNCHANGED responses
  /\ UNCHANGED <<request, ranHandler, cut, outBuf, jenkinsVars, rj, bgVars>>

(***************************************************************************)
(* Remote operations that do not wait: each takes the log of calls and the *)
(* Jenkins state and gives them back with the error it returns.            *)
(***************************************************************************)
\* RunJobParameters(name, parameters)
RunJobParametersOutcomes == {"getJobErr", "invokeErr", "ok"}

RunJobParameters(cs, bs, name, params, outcome) ==
  IF outcome = "getJobErr"
  THEN [calls |-> Append(cs, Call("getJob", name, <<>>)), builds |-> bs,
        err |-> NewError("Unable to get job", <<>>, RemoteCause)]
  ELSE
    LET cs2 == cs \o <<Call("getJob", name, <<>>), Call("invoke", name, params)>> IN
    IF outcome = "invokeErr"
    THEN [calls |-> cs2, builds |-> bs,
          err |-> NewErrorWrapping("Unable to envoke job.", <<>>, Nil)]
    ELSE [calls |-> cs2,
          builds |-> [bs EXCEPT ![name] =
                        Append(@, [state |-> "queued", result |-> ""])],
          err |-> Nil]

\* the job configuration, read and rewritten to `new`: GetJobConfig, the
\* edit of the document, SaveJobConfig
ConfigOutcomes == {"getJobErr", "getConfigErr", "saveGetJobErr", "updateErr", "ok"}

UpdateConfig(cs, cfgs, name, new, outcome) ==
  IF outcome = "getJobErr"
  THEN [calls |-> Append(cs, Call("getJob", name, <<>>)), configs |-> cfgs,
        err |-> NewError("Unable to get job", <<>>, RemoteCause)]
  ELSE
    LET cs2 == cs \o <<Call("getJob", name, <<>>), Call("getConfig", name, <<>>)>> IN
    IF outcome = "getConfigErr"
    THEN [calls |-> cs2, configs |-> cfgs,
          err |-> NewError("Unable to get job config", <<>>, RemoteCause)]
    ELSE
      LET cs3 == Append(cs2, Call("getJob", name, <<>>)) IN
      IF outcome = "saveGetJobErr"
      THEN [calls |-> cs3, configs |-> cfgs,
            err |-> NewError("Unable to save job for ", name,
                             NewError("Unable to get job", <<>>, RemoteCause))]
      ELSE
        LET cs4 == Append(cs3, Call("updateConfig", name, <<new>>)) IN
        IF outcome = "updateErr"
        THEN [calls |-> cs4, configs |-> cfgs,
              err |-> NewError("Unable to save job for ", name,
                               NewErrorWrapping("Unable to update job config", <<>>, Nil))]
        ELSE [calls |-> cs4, configs |-> [cfgs EXCEPT ![name] = new], err |-> Nil]

Enterprise == <<"mattermost-enterprise">>
PlatformPrefix == <<"mattermost-platform/">>

\* variant: the upstream project is the platform repository for every branch
SetBranch_AlwaysPlatform(branch, config) ==
  [config EXCEPT
     !.defaultValue = branch,
     !.upstreamProjects = PlatformPrefix \o branch]

\* SetCIServerBranch: the edit of one job's configuration
SetBranch(branch, config) ==
  [config EXCEPT
     !.defaultValue = branch,
     !.upstreamProjects = IF branch = Master THEN Enterprise
                          ELSE PlatformPrefix \o branch]

\* SetPreReleaseTarget: the edit of the pre-release job's configuration
SetTarget(target, config) == [config EXCEPT !.defaultValue = target]

(***************************************************************************)
(* CutRelease(release, rc, isFirstMinorRelease, backportRelease)           *)
(***************************************************************************)
ReleasePrefix == <<"r", "e", "l", "e", "a", "s", "e", "-">>

\* the locals computed at the entry of CutRelease
CutReleaseLocals(c) ==
  LET release == c.releasePart
      rc == c.rcPart
      shortRelease == Slice(release, 1, Len(release) - 2)
  IN [c EXCEPT
        !.releaseBranch = ReleasePrefix \o shortRelease,
        !.fullRelease = IF rc = <<>> THEN release ELSE release \o <<"-">> \o rc,
        !.rcpart = IF rc = <<>> THEN <<>> ELSE <<"-">> \o rc,
        !.isFirstMinorReleaseStr = IF c.isFirstMinorRelease THEN "true" ELSE "false"]

\* variant: only the error is tested, not the result
RunReleasePrechecks_ErrOnly(f) ==
  IF f.err # Nil
  THEN NewErrorWrapping("Pre-checks failed! Result: ", <<f.result>>, f.err)
  ELSE Nil

\* RunReleasePrechecks, given the frame RunJobWaitForResult returned
RunReleasePrechecks(f) ==
  IF f.err # Nil \/ f.result # STATUS_SUCCESS
  THEN NewErrorWrapping("Pre-checks failed! Result: ", <<f.result>>, f.err)
  ELSE Nil

\* variant: only the error of the release job is tested, not its result
ReleaseJobFailed_ErrOnly(f) == f.err # Nil

\* the test of the goroutine after the release job
ReleaseJobFailed(f) == f.err # Nil \/ f.result # STATUS_SUCCESS

\* `if !backportRelease`: whether the goroutine goes on to the CI servers
\* and the pre-release after a successful release job (CutRelease has no
\* dry-run parameter)
UpdatesWanted(c) == ~c.backport

\* the parameters of the release job
ReleaseParams(c) ==
  << <<"MM_VERSION", c.releasePart>>, <<"MM_RC", c.rcpart>>,
     <<"IS_FIRST_MINOR_RELEASE", <<c.isFirstMinorReleaseStr>>>> >>

\* CutRelease is entered: the locals, then RunReleasePrechecks calls
\* RunJobWaitForResult(Cfg.PreChecksJob, nil)
CutReleaseBegin ==
  /\ hpc = "CutRelease"
  /\ cut' = CutReleaseLocals(cut)
  /\ rj' = [rj EXCEPT !["request"] = EntryFrame(CfgPreChecksJob, <<>>)]
  /\ steps' = Append(steps, "prechecks")
  /\ hpc' = "prechecks"
  /\ UNCHANGED <<request, ranHandler, outBuf, responses, probes, jenkinsVars,
                 bpc, ci, releaseRet>>

\* the prechecks returned: CutRelease returns their error, or starts the
\* goroutine and returns nil
CutReleaseReturn ==
  /\ hpc = "prechecks"
  /\ rj["request"].pc = "returned"
  /\ LET err == RunReleasePrechecks(rj["request"]) IN
       /\ cut' = [cut EXCEPT
                    !.prechecks = [result |-> rj["request"].result,
                                   err |-> rj["request"].err],
                    !.ret = err]
       /\ bpc' = IF err = Nil THEN "start" ELSE bpc
  /\ rj' = [rj EXCEPT !["request"] = IdleFrame]
  /\ hpc' = "respond"
  /\ UNCHANGED <<request, ranHandler, outBuf, responses, probes, jenkinsVars,
                 ci, steps, releaseRet>>

\* cutReleaseCommandF after CutRelease: the error or the acknowledgement
cutRespond ==
  /\ hpc = "respond"
  /\ responses' =
       Finish(Append(responses,
                IF cut.ret # Nil
                THEN ErrorResponse(cut.ret)
                ELSE EnrichedResponse("Cut Release",
                       <<ErrItem("Release is on the way.", cut.versionString)>>,
                       IN_CHANNEL)),
              Nil, outBuf)
  /\ hpc' = "done"
  /\ UNCHANGED <<request, ranHandler, cut, outBuf, probes, jenkinsVars, rj, bgVars>>

(***************************************************************************)
(* The goroutine of CutRelease.                                            *)
(***************************************************************************)
\* variant: the goroutine is started before the prechecks have returned
BgStart_Early ==
  /\ bpc = "start" \/ (bpc = "none" /\ hpc = "prechecks")
  /\ rj' = [rj EXCEPT !["background"] = EntryFrame(CfgReleaseJob, ReleaseParams(cut))]
  /\ steps' = Append(steps, "release")
  /\ bpc' = "release"
  /\ UNCHANGED <<reqVars, jenkinsVars, ci, releaseRet>>

\* RunJobWaitForResult(Cfg.ReleaseJob, {MM_VERSION, MM_RC, IS_FIRST_MINOR_RELEASE})
BgStart ==
  /\ bpc = "start"
  /\ rj' = [rj EXCEPT !["background"] = EntryFrame(CfgReleaseJob, ReleaseParams(cut))]
  /\ steps' = Append(steps, "release")
  /\ bpc' = "release"
  /\ UNCHANGED <<reqVars, jenkinsVars, ci, releaseRet>>

\* variant: the goroutine writes the failure of the release job to the caller
BgAfterRelease_Reports ==
  /\ bpc = "release"
  /\ rj["background"].pc = "returned"
  /\ bpc' = IF ReleaseJobFailed(rj["background"]) THEN "done"
            ELSE IF UpdatesWanted(cut) THEN "SetCIServerBranch"
            ELSE "done"
  /\ responses' = IF ReleaseJobFailed(rj["background"])
                  THEN Append(responses, ErrorResponse(
                         NewErrorWrapping("Release job failed", <<>>, rj["background"].err)))
                  ELSE responses
  /\ releaseRet' = [result |-> rj["background"].result, err |-> rj["background"].err]
  /\ rj' = [rj EXCEPT !["background"] = IdleFrame]
  /\ ci' = 1
  /\ UNCHANGED <<request, hpc, ranHandler, cut, outBuf, probes, jenkinsVars, steps>>

\* the release job returned: stop, or go on to the CI servers
BgAfterRelease ==
  /\ bpc = "release"
  /\ rj["background"].pc = "returned"
  /\ bpc' = IF ReleaseJobFailed(rj["background"]) THEN "done"
            ELSE IF UpdatesWanted(cut) THEN "SetCIServerBranch"
            ELSE "done"
  /\ releaseRet' = [result |-> rj["background"].result, err |-> rj["background"].err]
  /\ rj' = [rj EXCEPT !["background"] = IdleFrame]
  /\ ci' = 1
  /\ UNCHANGED <<reqVars, jenkinsVars, steps>>

\* SetCIServerBranch(releaseBranch): one iteration of its loop over
\* Cfg.CIServerJobs (ci counts the jobs rewritten, plus one); the goroutine
\* ignores the error it returns
BgSetCIServerBranch ==
  /\ bpc = "SetCIServerBranch"
  /\ \E outcome \in ConfigOutcomes :
       LET r == UpdateConfig(calls, configs, CfgCIServerJobs[ci],
                             SetBranch(cut.releaseBranch, configs[CfgCIServerJobs[ci]]),
                             outcome)
       IN /\ calls' = r.calls
          /\ configs' = r.configs
          /\ ci' = IF r.err = Nil THEN ci + 1 ELSE ci
          /\ bpc' = IF r.err = Nil /\ ci < Len(CfgCIServerJobs)
                    THEN bpc ELSE "RunJobParameters"
  /\ steps' = IF ci = 1 THEN Append(steps, "SetCIServerBranch") ELSE steps
  /\ UNCHANGED <<reqVars, builds, rj, releaseRet>>

\* RunJobParameters("build-pushes/job/release-gitlab.mattermost.com",
\*                  {MM_VERSION: fullRelease})
BgRunGitlabJob ==
  /\ bpc = "RunJobParameters"
  /\ \E outcome \in RunJobParametersOutcomes :
       LET r == RunJobParameters(calls, builds, GitlabJob,
                                 << <<"MM_VERSION", cut.fullRelease>> >>, outcome)
       IN /\ calls' = r.calls
          /\ builds' = r.builds
  /\ steps' = Append(steps, "RunJobParameters")
  /\ bpc' = "SetPreReleaseTarget"
  /\ UNCHANGED <<reqVars, configs, rj, ci, releaseRet>>

\* SetPreReleaseTarget(fullRelease)
BgSetPreReleaseTarget ==
  /\ bpc = "SetPreReleaseTarget"
  /\ \E outcome \in ConfigOutcomes :
       LET r == UpdateConfig(calls, configs, CfgPreReleaseJob,
                             SetTarget(cut.fullRelease, configs[CfgPreReleaseJob]),
                             outcome)
       IN /\ calls' = r.calls
          /\ configs' = r.configs
  /\ steps' = Append(steps, "SetPreReleaseTarget")
  /\ bpc' = "RunJob"
  /\ UNCHANGED <<reqVars, builds, rj, ci, releaseRet>>

\* RunJob(Cfg.PreReleaseJob)
BgRunPreReleaseJob ==
  /\ bpc = "RunJob"
  /\ \E outcome \in RunJobParametersOutcomes :
       LET r == RunJobParameters(calls, builds, CfgPreReleaseJob, <<>>, outcome)
       IN /\ calls' = r.calls
          /\ builds' = r.builds
  /\ steps' = Append(steps, "RunJob")
  /\ bpc' = "done"
  /\ UNCHANGED <<reqVars, configs, rj, ci, releaseRet>>

(***************************************************************************)
(* runJobCmdF after its argument check: RunJob(args[0])                    *)
(***************************************************************************)
RunJobCall ==
  /\ hpc = "RunJob"
  /\ \E outcome \in RunJobParametersOutcomes :
       LET job == Fields(request.Text)[2]
           r == RunJobParameters(calls, builds, job, <<>>, outcome)
           out == IF r.err # Nil THEN PrintedError(r.err) ELSE <<>>
       IN /\ calls' = r.calls
          /\ builds' = r.builds
          /\ outBuf' = out
          /\ responses' =
               Finish(IF r.err # Nil THEN responses
                      ELSE Append(responses,
                             EnrichedResponse("Jenkins Job",
                               <<ErrItem("Ran job ", job)>>, IN_CHANNEL)),
                      r.err, out)
  /\ hpc' = "done"
  /\ UNCHANGED <<request, ranHandler, cut, probes, configs, rj, bgVars>>

(***************************************************************************)
(* setCIBranchCmdF after its argument check: SetCIServerBranch(args[0]),   *)
(* one iteration of its loop at a time, then the response.                 *)
(***************************************************************************)
setCIBranch ==
  /\ hpc = "setci"
  /\ \E outcome \in ConfigOutcomes :
       LET branch == Dispatch(Fields(request.Text)).args[1]
           r == UpdateConfig(calls, configs, CfgCIServerJobs[ci],
                             SetBranch(branch, configs[CfgCIServerJobs[ci]]),
                             outcome)
           out == IF r.err # Nil THEN PrintedError(r.err) ELSE <<>>
       IN /\ calls' = r.calls
          /\ configs' = r.configs
          /\ ci' = IF r.err = Nil THEN ci + 1 ELSE ci
          /\ IF r.err = Nil /\ ci < Len(CfgCIServerJobs)
             THEN UNCHANGED <<hpc, outBuf, responses>>
             ELSE /\ hpc' = "done"
                  /\ outBuf' = out
                  /\ responses' =
                       Finish(IF r.err # Nil THEN responses
                              ELSE Append(responses,
                                     EnrichedResponse("CI Servers",
                                       <<ErrItem("CI servers now pointed at ", branch)>>,
                                       IN_CHANNEL)),
                              r.err, out)
  /\ UNCHANGED <<request, ranHandler, cut, probes, builds, rj, bpc, steps, releaseRet>>

(***************************************************************************)
(* The translation commands: lockTranslationServerCommandF and             *)
(* checkBranchTranslationCmdF from their call of RunJobWaitForResult on.   *)
(* The frame is kept as it returned.                                       *)
(***************************************************************************)
TranslationParams(plt, web, mobile) ==
  << <<"PLT_BRANCH", plt>>, <<"WEB_BRANCH", web>>, <<"RN_BRANCH", mobile>> >>

\* variant: a result of UNSTABLE is taken for a success
TranslationJobFailed_UnstableOk(f) ==
  f.err # Nil \/ f.result \notin {STATUS_SUCCESS, "UNSTABLE"}

\* `err != nil || result != gojenkins.STATUS_SUCCESS`
TranslationJobFailed(f) == f.err # Nil \/ f.result # STATUS_SUCCESS

TranslationFailResponse(result) ==
  EnrichedResponse("Translation Server Update",
    <<ErrItem("Translation Job Fail. Please Check the Jenkins Logs. Jenkins Status: ",
              <<result>>)>>,
    IN_CHANNEL)

\* the message of lockTranslationServerCommandF after a successful job
LockedMessage(plt, web, mobile) ==
  <<ErrItem("Translation Server is lock to those Branches:", <<>>)>>
    \o (IF plt # <<>> THEN <<ErrItem("* Server Branch: ", plt)>> ELSE <<>>)
    \o (IF web # <<>> THEN <<ErrItem("* Webapp Branch: ", web)>> ELSE <<>>)
    \o (IF mobile # <<>> THEN <<ErrItem("* Mobile Branch: ", mobile)>> ELSE <<>>)

lockTranslationBegin ==
  /\ hpc = "lockpootle"
  /\ LET st == Dispatch(Fields(request.Text)).strings IN
       rj' = [rj EXCEPT !["request"] =
                EntryFrame(CfgTranslationServerJob,
                           TranslationParams(st[PltFlag], st[WebFlag], st[MobileFlag]))]
  /\ hpc' = "lockpootle-wait"
  /\ UNCHANGED <<request, ranHandler, cut, outBuf, responses, probes,
                 jenkinsVars, bgVars>>

lockTranslationReturn ==
  /\ hpc = "lockpootle-wait"
  /\ rj["request"].pc = "returned"
  /\ LET st == Dispatch(Fields(request.Text)).strings IN
       responses' =
         Finish(Append(responses,
                  IF TranslationJobFailed(rj["request"])
                  THEN TranslationFailResponse(rj["request"].result)
                  ELSE EnrichedResponse("Translation Server Update",
                         LockedMessage(st[PltFlag], st[WebFlag], st[MobileFlag]),
                         IN_CHANNEL)),
                Nil, outBuf)
  /\ hpc' = "done"
  /\ UNCHANGED <<request, ranHandler, cut, outBuf, probes, jenkinsVars, rj, bgVars>>

checkBranchTranslationBegin ==
  /\ hpc = "getpootle"
  /\ rj' = [rj EXCEPT !["request"] = EntryFrame(CfgCheckTranslationServerJob, <<>>)]
  /\ hpc' = "getpootle-wait"
  /\ UNCHANGED <<request, ranHandler, cut, outBuf, responses, probes,
                 jenkinsVars, bgVars>>

\* what GetJenkinsArtifacts returns after a successful job
ArtifactOutcomes == {"err", "ok"}

checkBranchTranslationReturn ==
  /\ hpc = "getpootle-wait"
  /\ rj["request"].pc = "returned"
  /\ IF TranslationJobFailed(rj["request"])
     THEN /\ responses' =
               Finish(Append(responses, TranslationFailResponse(rj["request"].result)),
                      Nil, outBuf)
          /\ UNCHANGED <<outBuf, calls>>
     ELSE \E a \in ArtifactOutcomes :
            /\ calls' = Append(calls, Call("getArtifacts", CfgCheckTranslationServerJob, <<>>))
            /\ IF a = "err"
               THEN LET err == NewError("Unable to get artifacts", <<>>, RemoteCause) IN
                    /\ outBuf' = PrintedError(err)
                    /\ responses' = Finish(responses, err, PrintedError(err))
               ELSE /\ outBuf' = outBuf
                    /\ responses' =
                         Finish(Append(responses,
                                  EnrichedResponse("Translation Server Update",
                                    <<ErrItem("Translation Server have lock to those Branches:",
                                              <<"artifact">>)>>,
                                    IN_CHANNEL)),
                                Nil, outBuf)
  /\ hpc' = "done"
  /\ UNCHANGED <<request, ranHandler, cut, probes, builds, configs, rj, bgVars>>

(***************************************************************************)
(* The specification: one request from its arrival on.                     *)
(***************************************************************************)
\* the configuration of a job before the request: built from an earlier
\* release branch
InitialConfig ==
  [defaultValue |-> <<"r", "e", "l", "e", "a", "s", "e", "-", "5", ".", "2">>,
   upstreamProjects |->
     PlatformPrefix \o <<"r", "e", "l", "e", "a", "s", "e", "-", "5", ".", "2">>]

Init ==
  /\ request \in Requests
  /\ hpc = "start"
  /\ ranHandler = ""
  /\ cut = NoCut
  /\ outBuf = <<>>
  /\ responses = <<>>
  /\ probes = <<>>
  /\ calls = <<>>
  /\ builds = [j \in JobNames |-> <<>>]
  /\ configs = [j \in JobNames |-> InitialConfig]
  /\ rj = [t \in Tasks |-> IdleFrame]
  /\ bpc = "none"
  /\ ci = 1
  /\ steps = <<>>
  /\ releaseRet = [result |-> "", err |-> Nil]

\* a step of the call of task t
RJW(t) ==
  \/ RJW_GetJob(t)
  \/ RJW_Invoke(t)
  \/ RJW_FirstPoll(t)
  \/ RJW_Retry(t)
  \/ RJW_Reached(t)
  \/ RJW_Wait(t)
  \/ RJW_Return(t)

RunJobWaitForResult == \E t \in Tasks : RJW(t)

Next ==
  \/ slashCommandHandler
  \/ cutProbe
  \/ CutReleaseBegin
  \/ CutReleaseReturn
  \/ cutRespond
  \/ RunJobCall
  \/ setCIBranch
  \/ lockTranslationBegin
  \/ lockTranslationReturn
  \/ checkBranchTranslationBegin
  \/ checkBranchTranslationReturn
  \/ RunJobWaitForResult
  \/ BgStart
  \/ BgAfterRelease
  \/ BgSetCIServerBranch
  \/ BgRunGitlabJob
  \/ BgSetPreReleaseTarget
  \/ BgRunPreReleaseJob
  \/ BuildStart
  \/ BuildFinish

Spec == Init /\ [][Next]_vars

\* a task inside RunJobWaitForResult keeps running: nothing in the call
\* waits for another task, and the runtime schedules every goroutine
LiveSpec == Spec /\ \A t \in Tasks : WF_vars(RJW(t))

(***************************************************************************)
(* Two requests served at the same time (net/http runs each handler in its *)
(* own goroutine), both inside RunJobWaitForResult(Cfg.PreChecksJob, nil)  *)
(* as RunReleasePrechecks calls it.  The request variables are those of    *)
(* the first request; the second frame is the call of the second request.  *)
(***************************************************************************)
ConcurrentRequest ==
  [parseOK |-> TRUE, Token |-> "token-1", UserId |-> "alice",
   Command |-> "matterbuild",
   Text |-> Join(<<CutWord, <<"5", ".", "3", ".", "1">>, BackportFlag>>, " ")]

PollersInit ==
  /\ request = ConcurrentRequest
  /\ hpc = "prechecks"
  /\ ranHandler = "cut"
  /\ cut = CutReleaseLocals(HandlerEntry(ConcurrentRequest).cut)
  /\ outBuf = <<>>
  /\ responses = <<>>
  /\ probes = <<>>
  /\ calls = <<>>
  /\ builds = [j \in JobNames |-> <<>>]
  /\ configs = [j \in JobNames |-> InitialConfig]
  /\ rj = [t \in Tasks |-> EntryFrame(CfgPreChecksJob, <<>>)]
  /\ bpc = "none"
  /\ ci = 1
  /\ steps = <<"prechecks">>
  /\ releaseRet = [result |-> "", err |-> Nil]

\* Jenkins fails few polls of a call and each call waits a short time
MaxFailedPolls == 1
MaxPollerWait == 2

FailedPolls(p) == Len(SelectSeq(p, LAMBDA ok : ~ok))

PollsBounded ==
  \A t \in Tasks :
    /\ FailedPolls(rj[t].reachPolls) <= MaxFailedPolls
    /\ rj[t].complPolls <= MaxPollerWait

PollersNext ==
  \/ RunJobWaitForResult /\ PollsBounded'
  \/ BuildStart
  \/ BuildFinish

PollersSpec == PollersInit /\ [][PollersNext]_vars

(***************************************************************************)
(* Properties.                                                             *)
(***************************************************************************)
\* the documented grammar: digits separated by literal dots
GrammarFinal == <<RxDigits, RxLit("."), RxDigits, RxLit("."), RxDigits>>
GrammarRc == GrammarFinal \o <<RxLit("-"), RxLit("r"), RxLit("c"), RxDigits>>
InGrammar(v) == MatchString(GrammarFinal, v) \/ MatchString(GrammarRc, v)

\* the command the text of the request names, its args and its flags
Parsed == Dispatch(Fields(request.Text))

\* the request reached cutReleaseCommandF with a version argument
CutWithVersion == ranHandler = "cut" /\ Len(Parsed.args) >= 1

\* largest minor number looked for when the probed version is predicted
MaxMinor == 10

BadTokenError == <<ErrItem("Token for slash command is incorrect", <<>>)>>
PermissionError == <<ErrItem("You don't have permissions to use this command.", <<>>)>>

\* C1: a request whose token is not an allowed token is answered with the
\* bad-token error, whoever the user is, and neither a command function nor
\* a remote call (Jenkins, the probe) ever runs for it
C1_BadTokenRejectedFirst ==
  (request.parseOK /\ request.Token \notin CfgAllowedTokens) =>
    /\ ranHandler = ""
    /\ calls = <<>>
    /\ probes = <<>>
    /\ steps = <<>>
    /\ hpc \in {"start", "done"}
    /\ hpc = "done" => responses = <<ErrorResponse(BadTokenError)>>

C1_Witness ==
  /\ request.parseOK
  /\ request.Token \notin CfgAllowedTokens
  /\ request.UserId \notin CfgAllowedUsers
  /\ Parsed.cmd = "cut"
  /\ hpc = "done"
  /\ responses = <<ErrorResponse(BadTokenError)>>

\* C2: a caller with an allowed token who is an allowed user but no release
\* user is refused when the text names the cut command (permission error,
\* no job invoked) and is served when it names another command
C2_ReleaseGateOnParsedAction ==
  (/\ request.parseOK
   /\ request.Token \in CfgAllowedTokens
   /\ request.UserId \in CfgAllowedUsers \ CfgReleaseUsers
   /\ hpc # "start") =>
    IF Parsed.cmd = "cut"
    THEN /\ ranHandler = ""
         /\ calls = <<>>
         /\ responses = <<ErrorResponse(PermissionError)>>
    ELSE Parsed.cmd = "runjob" => ranHandler = "runjob"

\* C3: when the first 4 reachability polls fail and the 5th succeeds the
\* call goes on to the completion wait and returns without error; when the
\* first 5 all fail it returns the build-unreachable error
FirstFailed(p, n) == Len(p) >= n /\ \A i \in 1..n : ~p[i]

IsUnreachableError(err) ==
  Len(err) >= 1 /\ err[1].desc = "Unable to get build for pre-checks job: "

C3_ReachabilityRetry ==
  \A t \in Tasks :
    LET f == rj[t]
        p == f.reachPolls
    IN /\ (FirstFailed(p, 4) /\ Len(p) >= 5 /\ p[5]) =>
            /\ Len(p) = 5
            /\ f.pc \in {"reach", "wait", "returned"}
            /\ f.pc = "returned" => f.err = Nil
       /\ FirstFailed(p, 5) =>
            \/ f.pc = "reach" /\ Len(p) = 5
            \/ f.pc = "returned" /\ IsUnreachableError(f.err) /\ f.result = ""

C3_Witness ==
  \E t \in Tasks :
    /\ FirstFailed(rj[t].reachPolls, 4)
    /\ Len(rj[t].reachPolls) = 5
    /\ rj[t].reachPolls[5]
    /\ rj[t].pc = "returned"
    /\ rj[t].err = Nil
    /\ rj[t].result = "SUCCESS"

\* C4: a call that reached its build returns only after Jenkins reported
\* the build finished, and returns the result of that build; it has made
\* more completion polls than Jenkins reported the build running
C4_ReturnsFinalResult ==
  \A t \in Tasks :
    (rj[t].pc = "returned" /\ rj[t].err = Nil) =>
      LET b == builds[rj[t].name][rj[t].newBuildNumber] IN
      /\ b.state = "finished"
      /\ rj[t].result = b.result
      /\ rj[t].result \in JenkinsResults
      /\ ~rj[t].raw.building
      /\ rj[t].complPolls >= rj[t].runningSeen + 1

C4_Witness ==
  \E t \in Tasks :
    /\ rj[t].pc = "returned"
    /\ rj[t].err = Nil
    /\ rj[t].runningSeen = 3
    /\ rj[t].complPolls = 4
    /\ rj[t].result = "SUCCESS"

\* C5: a version argument outside the grammar (digits, literal dots) is
\* refused with an error and no remote call, with or without --backport
C5_InvalidVersionNoRemoteCall ==
  (CutWithVersion /\ ~InGrammar(Parsed.args[1])) =>
    /\ calls = <<>>
    /\ probes = <<>>
    /\ hpc = "done" => (Len(responses) = 1 /\ responses[1].kind = "standard")

\* C6: for a version of the grammar, without --backport the artifact of
\* MAJOR.(MINOR+1).0-rc1 is probed, and a 200 refuses the cut before any
\* job; with --backport nothing is probed and CutRelease is entered
ReleaseOf(v) ==
  LET k == IndexFrom(v, "-", 1) IN IF k = 0 THEN v ELSE Slice(v, 1, k - 1)

ProbeExpected(v, url) ==
  LET parts == Split(ReleaseOf(v), ".") IN
  \E b \in 0..MaxMinor :
    /\ parts[2] = Itoa(b)
    /\ url = S3URL(parts[1] \o <<".">> \o Itoa(b + 1) \o <<".", "0">>)

C6_BackportGuard ==
  (CutWithVersion /\ InGrammar(Parsed.args[1])) =>
    IF BackportFlag \in Parsed.flags
    THEN /\ probes = <<>>
         /\ hpc = "CutRelease" \/ steps # <<>>
    ELSE /\ IF hpc = "probe" THEN probes = <<>> ELSE Len(probes) = 1
         /\ probes # <<>> => ProbeExpected(Parsed.args[1], probes[1].url)
         /\ (probes # <<>> /\ probes[1].answer = "200") =>
              /\ hpc = "done"
              /\ calls = <<>>
              /\ steps = <<>>
              /\ bpc = "none"
              /\ Len(responses) = 1
              /\ responses[1].kind = "standard"
              /\ responses[1].text[1].desc =
                   "Are you sure this isn't a backport release? I see a future release on s3."
         /\ (probes # <<>> /\ probes[1].answer # "200") =>
              hpc = "CutRelease" \/ steps # <<>>

C6_Witness ==
  /\ CutWithVersion
  /\ Parsed.args[1] = <<"5", ".", "9", ".", "0">>
  /\ Len(probes) = 1
  /\ probes[1].url = S3URL(<<"5", ".", "1", "0", ".", "0">>)
  /\ probes[1].answer = "200"
  /\ hpc = "done"
  /\ calls = <<>>

\* C7: D.D.D parses to the whole string, no rc part, not a first minor
\* release; D.D.D-rcN parses to D.D.D and rcN, a first minor release
\* exactly when N is 1 and D.D.D ends in ".0"
C7_VersionParsing ==
  CutWithVersion =>
    LET v == Parsed.args[1] IN
    /\ MatchString(GrammarFinal, v) =>
         /\ cut.releasePart = v
         /\ cut.rcPart = <<>>
         /\ ~cut.isFirstMinorRelease
    /\ MatchString(GrammarRc, v) =>
         LET k == IndexFrom(v, "-", 1)
             rel == Slice(v, 1, k - 1)
             n == Slice(v, k + 3, Len(v))
         IN /\ cut.releasePart = rel
            /\ cut.rcPart = <<"r", "c">> \o n
            /\ cut.isFirstMinorRelease <=>
                 (n = <<"1">> /\ rel[Len(rel) - 1] = "." /\ rel[Len(rel)] = "0")

C7_Witness ==
  /\ ranHandler = "cut"
  /\ cut.versionString = <<"5", ".", "3", ".", "0", "-", "r", "c", "1">>
  /\ cut.releasePart = <<"5", ".", "3", ".", "0">>
  /\ cut.rcPart = <<"r", "c", "1">>
  /\ cut.isFirstMinorRelease

\* C8: CutRelease first runs the prechecks job (without parameters, whatever
\* the flags) and waits for it; when the prechecks return an error or a
\* result other than SUCCESS it returns an error, which is the response,
\* and neither the release job nor the goroutine is started
CutReleaseReturned == steps # <<>> /\ hpc \in {"respond", "done"}

PrechecksFailed ==
  cut.prechecks.err # Nil \/ cut.prechecks.result # "SUCCESS"

Invoked(job, i) == calls[i].op = "invoke" /\ calls[i].job = job

C8_PrechecksGate ==
  ranHandler = "cut" =>
    /\ steps # <<>> => steps[1] = "prechecks"
    /\ (steps # <<>> /\ hpc # "prechecks") => calls # <<>>
    /\ calls # <<>> => calls[1] = Call("getJob", CfgPreChecksJob, <<>>)
    /\ \A i \in 1..Len(calls) :
         calls[i].op = "invoke" =>
           \/ Invoked(CfgPreChecksJob, i) /\ calls[i].arg = <<>>
           \/ /\ \E j \in 1..(i - 1) : Invoked(CfgPreChecksJob, j)
              /\ builds[CfgPreChecksJob][1] = [state |-> "finished", result |-> "SUCCESS"]
    /\ hpc = "prechecks" => bpc = "none"
    /\ (CutReleaseReturned /\ PrechecksFailed) =>
         /\ cut.ret # Nil
         /\ bpc = "none"
         /\ steps = <<"prechecks">>
         /\ \A i \in 1..Len(calls) : calls[i].job = CfgPreChecksJob
         /\ hpc = "done" => responses = <<ErrorResponse(cut.ret)>>

C8_Witness ==
  /\ ranHandler = "cut"
  /\ cut.dryrun
  /\ ~cut.backport
  /\ cut.prechecks = [result |-> "FAILURE", err |-> Nil]
  /\ hpc = "done"
  /\ bpc = "none"
  /\ responses = <<ErrorResponse(cut.ret)>>

\* C9: once the prechecks succeeded CutRelease returns nil and the one
\* response of the request is the acknowledgement, written without waiting
\* for the goroutine and not changed by anything the goroutine runs into
Ack ==
  EnrichedResponse("Cut Release",
    <<ErrItem("Release is on the way.", cut.versionString)>>, IN_CHANNEL)

C9_AckThenContinue ==
  (CutReleaseReturned /\ ~PrechecksFailed) =>
    /\ cut.ret = Nil
    /\ bpc # "none"
    /\ hpc = "respond" => (responses = <<>> /\ ENABLED cutRespond)
    /\ hpc = "done" => responses = <<Ack>>

C9_Witness ==
  /\ hpc = "done"
  /\ responses = <<Ack>>
  /\ bpc = "release"
  /\ rj["background"].pc = "wait"
  /\ rj["background"].raw.building

\* C10: the CI-branch update, the deployment job, the pre-release target
\* and the pre-release job are run after a successful release job when the
\* cut is neither a backport nor a dry run, and none of them is run when
\* --dryrun or --backport was given
UpdateSteps == <<"SetCIServerBranch", "RunJobParameters", "SetPreReleaseTarget", "RunJob">>

ReleaseSucceeded == releaseRet.err = Nil /\ releaseRet.result = "SUCCESS"

C10_NoUpdatesOnDryRun ==
  /\ (cut.dryrun \/ cut.backport) =>
       \A i \in 1..Len(steps) : \A k \in 1..4 : steps[i] # UpdateSteps[k]
  /\ (bpc = "done" /\ ReleaseSucceeded /\ ~cut.dryrun /\ ~cut.backport) =>
       steps = <<"prechecks", "release">> \o UpdateSteps

\* C11: when the release job could not be invoked, its build could not be
\* reached or it finished with a result other than SUCCESS, the goroutine
\* ends there: no job configuration is changed, neither the deployment job
\* nor the pre-release job is triggered, and nothing more is written
ReleaseJobOver == bpc \notin {"none", "start", "release"}

IsInvokeError(err) == Len(err) >= 1 /\ err[1].desc = "Unable to envoke job."

C11_StopsOnReleaseFailure ==
  (ReleaseJobOver /\ ~ReleaseSucceeded) =>
    /\ bpc = "done"
    /\ steps = <<"prechecks", "release">>
    /\ \A i \in 1..Len(calls) : calls[i].job \in {CfgPreChecksJob, CfgReleaseJob}
    /\ configs = [j \in JobNames |-> InitialConfig]
    /\ builds[GitlabJob] = <<>>
    /\ builds[CfgPreReleaseJob] = <<>>
    /\ Len(responses) <= 1

C11_Witness ==
  /\ bpc = "done"
  /\ ~cut.backport
  /\ ~cut.dryrun
  /\ releaseRet = [result |-> "UNSTABLE", err |-> Nil]
  /\ steps = <<"prechecks", "release">>

\* the other two ways the release job fails
C11_InvokeFailed == ReleaseJobOver /\ IsInvokeError(releaseRet.err)
C11_Unreached == ReleaseJobOver /\ IsUnreachableError(releaseRet.err)

\* C12: the steps of a cut are taken one after the other in the order
\* prechecks, release job, CI-branch update, deployment job, pre-release
\* target, pre-release job: the requests sent to Jenkins never go back to
\* an earlier step, the release job is started only after the prechecks
\* build finished, the updates only after the release build finished, and
\* the two tasks never wait on a job at the same time
WorkflowOrder ==
  <<"prechecks", "release", "SetCIServerBranch", "RunJobParameters",
    "SetPreReleaseTarget", "RunJob">>

\* the first and the last step a request to Jenkins can belong to
StageMin(c) ==
  CASE c.job = CfgPreChecksJob -> 1
    [] c.job = CfgReleaseJob -> 2
    [] c.job = GitlabJob -> 4
    [] c.job = CfgPreReleaseJob -> IF c.op = "invoke" THEN 6 ELSE 5
    [] OTHER -> 3

StageMax(c) ==
  IF c.job = CfgPreReleaseJob /\ c.op = "getJob" THEN 6 ELSE StageMin(c)

Finished(job) == Len(builds[job]) >= 1 /\ builds[job][1].state = "finished"

C12_StepsInOrder ==
  ranHandler = "cut" =>
    /\ Len(steps) <= Len(WorkflowOrder)
    /\ \A i \in 1..Len(steps) : steps[i] = WorkflowOrder[i]
    /\ \A i \in 1..Len(calls) :
         /\ StageMin(calls[i]) <= Len(steps)
         /\ \A j \in (i + 1)..Len(calls) : StageMin(calls[i]) <= StageMax(calls[j])
    /\ ~(rj["request"].pc # "idle" /\ rj["background"].pc # "idle")
    /\ Len(steps) >= 2 =>
         /\ rj["request"].pc = "idle"
         /\ hpc \in {"respond", "done"}
         /\ Finished(CfgPreChecksJob)
    /\ Len(steps) >= 3 =>
         /\ rj["background"].pc = "idle"
         /\ Finished(CfgReleaseJob)
    /\ bpc = "SetCIServerBranch" => Len(steps) \in {2, 3}
    /\ bpc = "RunJobParameters" => Len(steps) = 3
    /\ bpc = "SetPreReleaseTarget" => Len(steps) = 4
    /\ bpc = "RunJob" => Len(steps) = 5

C12_Witness ==
  /\ steps = WorkflowOrder
  /\ bpc = "done"
  /\ hpc = "done"
  /\ \E i \in 1..Len(calls) : calls[i] = Call("invoke", CfgPreReleaseJob, <<>>)
  /\ \E i \in 1..Len(calls) : calls[i].op = "updateConfig" /\ calls[i].job = CfgCIServerJobs[2]

\* C13: a call that goes on after its invocation polls the build that
\* invocation started, two calls never poll the same build of a job, and a
\* call that returns a result returns the result of the build it started
OwnBuild(t) == rj[t].newBuildNumber = rj[t].invoked

Polling(t) == rj[t].pc \in {"poll", "reach", "wait"}

C13_PollsOwnBuild ==
  /\ \A t \in Tasks :
       /\ Polling(t) => OwnBuild(t)
       /\ (rj[t].pc = "returned" /\ rj[t].err = Nil) =>
            /\ OwnBuild(t)
            /\ rj[t].result = builds[rj[t].name][rj[t].invoked].result
  /\ \A t1, t2 \in Tasks :
       (t1 # t2 /\ Polling(t1) /\ Polling(t2) /\ rj[t1].name = rj[t2].name) =>
         rj[t1].newBuildNumber # rj[t2].newBuildNumber

\* two calls waiting on one build number
C13_SameBuildPolled ==
  /\ Polling("request")
  /\ Polling("background")
  /\ rj["request"].name = rj["background"].name
  /\ rj["request"].newBuildNumber = rj["background"].newBuildNumber

\* a call returns the result of a build another trigger started
C13_ForeignResult ==
  \E t \in Tasks :
    /\ rj[t].pc = "returned"
    /\ rj[t].err = Nil
    /\ rj[t].result # builds[rj[t].name][rj[t].invoked].result

\* C14: a call whose job could not be fetched or invoked has returned the
\* error with an empty result, without a poll of either kind, without a
\* sleep and without a second invocation (none at all when the fetch failed)
IsGetJobError(err) == Len(err) >= 1 /\ err[1].desc = "Unable to get job"

Invokes(job) ==
  Len(SelectSeq(calls, LAMBDA c : c.op = "invoke" /\ c.job = job))

C14_FailsImmediately ==
  \A t \in Tasks :
    LET f == rj[t] IN
    /\ f.pc = "invoke" => Invokes(f.name) = 0
    /\ (f.pc = "returned" /\ (IsGetJobError(f.err) \/ IsInvokeError(f.err))) =>
         /\ f.result = ""
         /\ f.reachPolls = <<>>
         /\ f.complPolls = 0
         /\ f.sleeps = <<>>
         /\ f.tries = 0
         /\ Len(builds[f.name]) = 0
         /\ Invokes(f.name) = (IF IsInvokeError(f.err) THEN 1 ELSE 0)
         /\ calls[Len(calls)].job = f.name

C14_Witness ==
  /\ rj["background"].pc = "returned"
  /\ IsInvokeError(rj["background"].err)
  /\ rj["background"].result = ""
  /\ rj["background"].sleeps = <<>>
  /\ Invokes(CfgReleaseJob) = 1

\* the other case: the job could not be fetched
C14_GetJobFailed ==
  /\ rj["request"].pc = "returned"
  /\ IsGetJobError(rj["request"].err)
  /\ calls = <<Call("getJob", CfgPreChecksJob, <<>>)>>

\* C15: each caller of RunJobWaitForResult (the prechecks, the goroutine
\* for the release job, the two translation commands) goes on as after a
\* success exactly when the call returned no error and the result SUCCESS;
\* any other result and any error take the caller's failure path
Succeeded(r) == r.err = Nil /\ r.result = "SUCCESS"

TranslationReturned(handler) ==
  ranHandler = handler /\ hpc = "done" /\ rj["request"].pc = "returned"

IsFailResponse(r) ==
  /\ r.kind = "enriched"
  /\ r.text[1].desc =
       "Translation Job Fail. Please Check the Jenkins Logs. Jenkins Status: "

C15_SuccessOnlyOnSUCCESS ==
  /\ CutReleaseReturned =>
       /\ cut.ret = Nil <=> Succeeded(cut.prechecks)
       /\ bpc # "none" <=> Succeeded(cut.prechecks)
  /\ (ReleaseJobOver /\ ~cut.backport) =>
       ((bpc # "done" \/ Len(steps) > 2) <=> Succeeded(releaseRet))
  /\ TranslationReturned("lockpootle") =>
       /\ Len(responses) = 1
       /\ IsFailResponse(responses[1]) <=> ~Succeeded(rj["request"])
       /\ ~Succeeded(rj["request"]) =>
            responses[1] = TranslationFailResponse(rj["request"].result)
  /\ TranslationReturned("getpootle") =>
       /\ Len(responses) = 1
       /\ IsFailResponse(responses[1]) <=> ~Succeeded(rj["request"])
       /\ (\E i \in 1..Len(calls) : calls[i].op = "getArtifacts")
            <=> Succeeded(rj["request"])

C15_Witness ==
  /\ TranslationReturned("lockpootle")
  /\ rj["request"].err = Nil
  /\ rj["request"].result = "UNSTABLE"
  /\ responses = <<TranslationFailResponse("UNSTABLE")>>

\* the success path of a translation command
C15_TranslationSucceeded ==
  /\ TranslationReturned("getpootle")
  /\ Succeeded(rj["request"])
  /\ ~IsFailResponse(responses[1])

\* C16: when SetCIServerBranch(branch) has returned without error (its
\* loop went through every job of Cfg.CIServerJobs) the configuration of
\* each of these jobs has branch as its default branch and, as its
\* upstream project, mattermost-enterprise when branch is master and
\* mattermost-platform/<branch> otherwise
SetCIServerBranchReturnedNil == ci = Len(CfgCIServerJobs) + 1

ExpectedUpstream(branch) ==
  IF branch = <<"m", "a", "s", "t", "e", "r">>
  THEN <<"mattermost-enterprise">>
  ELSE <<"mattermost-platform/">> \o branch

CIJobsPointAt(branch) ==
  \A i \in 1..Len(CfgCIServerJobs) :
    /\ configs[CfgCIServerJobs[i]].defaultValue = branch
    /\ configs[CfgCIServerJobs[i]].upstreamProjects = ExpectedUpstream(branch)

C16_CIBranchMapping ==
  /\ (ranHandler = "setci" /\ Len(Parsed.args) >= 1) =>
       /\ SetCIServerBranchReturnedNil => CIJobsPointAt(Parsed.args[1])
       /\ (hpc = "done" /\ responses[1].title = "CI Servers") =>
            /\ SetCIServerBranchReturnedNil
            /\ CIJobsPointAt(Parsed.args[1])
  /\ (ranHandler = "cut" /\ SetCIServerBranchReturnedNil) =>
       CIJobsPointAt(cut.releaseBranch)

C16_Witness ==
  /\ ranHandler = "setci"
  /\ Parsed.args = <<Master>>
  /\ hpc = "done"
  /\ responses[1].title = "CI Servers"
  /\ SetCIServerBranchReturnedNil
  /\ configs[CfgCIServerJobs[2]] = [defaultValue |-> Master, upstreamProjects |-> Enterprise]

\* the other case: a release branch, set by the goroutine of a cut
C16_ReleaseBranchSet ==
  /\ ranHandler = "cut"
  /\ SetCIServerBranchReturnedNil
  /\ configs[CfgCIServerJobs[1]].upstreamProjects =
       <<"mattermost-platform/", "r", "e", "l", "e", "a", "s", "e", "-", "5", ".", "3">>

\* C17: a request that passed the permission checks and names an unknown
\* command, or whose command function returns an error, is answered with
\* the ephemeral "Information" response holding what cobra printed; every
\* response of every request is written with status 200, and a request
\* that is over has been answered
Authorized == request.parseOK /\ checkSlashPermissions(request) = Nil

\* the command function returns an error for want of an argument
MissingArgument == Parsed.cmd \in {"cut", "runjob", "setci"} /\ Len(Parsed.args) = 0

Information == EnrichedResponse("Information", outBuf, EPHEMERAL)

C17_ErrorsAreInformation ==
  /\ \A i \in 1..Len(responses) : responses[i].status = 200
  /\ hpc = "done" => Len(responses) >= 1
  /\ (Authorized /\ hpc = "done") =>
       /\ (Parsed.cmd \in {"unknown", "badflag"} \/ MissingArgument) =>
            /\ responses = <<Information>>
            /\ Len(outBuf) = 3
            /\ outBuf[1].desc = "Error: "
       /\ outBuf # <<>> => responses[Len(responses)] = Information

C17_Witness ==
  /\ Authorized
  /\ Parsed.cmd = "unknown"
  /\ hpc = "done"
  /\ responses = <<Information>>
  /\ outBuf[2] = ErrItem("unknown command ", BogusWord)
  /\ responses[1].style = "ephemeral"

\* an error of the remote system returned by a command function
C17_RemoteErrorReturned ==
  /\ Authorized
  /\ Parsed.cmd = "runjob"
  /\ hpc = "done"
  /\ responses = <<Information>>
  /\ outBuf[2].desc = "Unable to envoke job."

\* C18: a call polls its build at most 5 times before the completion wait
\* or the build-unreachable error, and the pause after the k-th retry that
\* found the build unreachable is k seconds
ReachSleeps(f) == IF f.pc \in {"wait", "returned"} /\ f.complPolls > 0
                  THEN SubSeq(f.sleeps, 1, Len(f.sleeps) - f.complPolls)
                  ELSE f.sleeps

C18_AtMostFivePolls ==
  \A t \in Tasks :
    /\ Len(rj[t].reachPolls) <= 5
    /\ \A k \in 1..Len(ReachSleeps(rj[t])) : ReachSleeps(rj[t])[k] = k

\* the pauses alone: the k-th pause of the reachability loop is k seconds
C18_Backoff ==
  \A t \in Tasks :
    \A k \in 1..Len(ReachSleeps(rj[t])) : ReachSleeps(rj[t])[k] = k

\* a sixth poll is made
C18_SixPolls ==
  \E t \in Tasks :
    /\ Len(rj[t].reachPolls) = 6
    /\ rj[t].sleeps = <<1, 2, 3, 4>>
    /\ rj[t].pc = "returned"
    /\ IsUnreachableError(rj[t].err)

\* C19: an error made for a failed invocation or a failed configuration
\* update carries the cause the remote system gave as its parent, in the
\* error a call returns and in what is rendered to the caller
LosesCause(chain) ==
  \E i \in 1..Len(chain) :
    /\ chain[i].desc \in {"Unable to envoke job.", "Unable to update job config"}
    /\ (i = Len(chain) \/ chain[i + 1] # RemoteCause[1])

C19_CauseIsWrapped ==
  /\ \A t \in Tasks : ~LosesCause(rj[t].err)
  /\ ~LosesCause(cut.ret)
  /\ ~LosesCause(outBuf)
  /\ \A i \in 1..Len(responses) : ~LosesCause(responses[i].text)

\* the rendered message of a failed invocation ends in "No Error (nil)"
C19_NilCauseRendered ==
  /\ Parsed.cmd = "runjob"
  /\ hpc = "done"
  /\ responses = <<Information>>
  /\ outBuf = PrintedError(<<ErrItem("Unable to envoke job.", <<>>),
                             ErrItem("No Error (nil)", <<>>)>>)

\* the same for a failed configuration update
C19_NilCauseOnUpdate ==
  /\ Parsed.cmd = "setci"
  /\ hpc = "done"
  /\ \E i \in 1..Len(outBuf) : outBuf[i].desc = "Unable to update job config"
  /\ outBuf[Len(outBuf) - 1].desc = "No Error (nil)"

\* C20: whatever Jenkins answers, a call that has invoked its job leaves
\* the reachability phase (for the completion wait or with an error) after
\* at most 6 polls; from the wait it returns once Jenkins has reported the
\* build as not running, and only then: while the last report says
\* running the call stays in the wait
InReach(t) == rj[t].pc \in {"poll", "reach"}

ReportedNotRunning(t) == rj[t].pc = "wait" /\ ~IsRunning(rj[t])

C20_Termination ==
  /\ [](\A t \in Tasks : Len(rj[t].reachPolls) <= MaxTries + 1)
  /\ \A t \in Tasks : InReach(t) ~> (rj[t].pc \in {"wait", "returned"})
  /\ \A t \in Tasks : ReportedNotRunning(t) ~> (rj[t].pc = "returned")
  /\ [][\A t \in Tasks :
          (rj[t].pc = "wait" /\ rj'[t].pc # "wait") =>
            (~IsRunning(rj[t]) /\ rj'[t].pc = "returned")]_vars

C20_Witness ==
  \E t \in Tasks :
    /\ rj[t].pc = "returned"
    /\ rj[t].err = Nil
    /\ rj[t].reachPolls = <<FALSE, TRUE>>
    /\ rj[t].runningSeen = 2
    /\ rj[t].result = "FAILURE"

\* a call still waiting after every poll the bound allows said running
C20_StillWaiting ==
  \E t \in Tasks :
    /\ rj[t].pc = "wait"
    /\ IsRunning(rj[t])
    /\ rj[t].runningSeen = MaxCompletionPolls

\* C21: a call returns the build-unreachable error only when every
\* reachability poll it made failed; a poll answered 200 without error
\* takes the call to the completion wait
C21_UnreachableOnlyIfAllFailed ==
  \A t \in Tasks :
    /\ (rj[t].pc = "returned" /\ IsUnreachableError(rj[t].err)) =>
         \A i \in 1..Len(rj[t].reachPolls) : ~rj[t].reachPolls[i]
    /\ (rj[t].reachPolls # <<>> /\ rj[t].reachPolls[Len(rj[t].reachPolls)]) =>
         (rj[t].pc \in {"reach", "wait"} \/ (rj[t].pc = "returned" /\ rj[t].err = Nil))

\* the sixth poll found the build and the call returned the error
C21_SuccessDiscarded ==
  \E t \in Tasks :
    /\ rj[t].pc = "returned"
    /\ IsUnreachableError(rj[t].err)
    /\ rj[t].reachPolls = <<FALSE, FALSE, FALSE, FALSE, FALSE, TRUE>>
    /\ rj[t].status = 200
    /\ ~rj[t].err3

\* C22: for a version of the grammar, whatever the number of digits of its
\* patch number, CutRelease computes the branch release-MAJOR.MINOR and
\* the full version equal to the version given, and these are what
\* SetCIServerBranch writes to the CI jobs, what the deployment job gets
\* as MM_VERSION and what SetPreReleaseTarget writes
ExpectedBranch(v) ==
  LET parts == Split(ReleaseOf(v), ".") IN
  <<"r", "e", "l", "e", "a", "s", "e", "-">> \o parts[1] \o <<".">> \o parts[2]

C22_BranchAndFullVersion ==
  (CutWithVersion /\ InGrammar(Parsed.args[1]) /\ steps # <<>>) =>
    LET v == Parsed.args[1] IN
    /\ cut.releaseBranch = ExpectedBranch(v)
    /\ cut.fullRelease = v
    /\ \A i \in 1..Len(calls) :
         /\ (calls[i].op = "updateConfig" /\ calls[i].job # CfgPreReleaseJob) =>
              calls[i].arg[1].defaultValue = ExpectedBranch(v)
         /\ (calls[i].op = "updateConfig" /\ calls[i].job = CfgPreReleaseJob) =>
              calls[i].arg[1].defaultValue = v
         /\ (calls[i].op = "invoke" /\ calls[i].job = GitlabJob) =>
              calls[i].arg = << <<"MM_VERSION", v>> >>

\* the full version alone
C22_FullVersion ==
  (CutWithVersion /\ InGrammar(Parsed.args[1]) /\ steps # <<>>) =>
    cut.fullRelease = Parsed.args[1]

\* the CI jobs are pointed at a branch whose name ends in a dot
C22_WrongBranchWritten ==
  /\ CutWithVersion
  /\ Parsed.args[1] = <<"5", ".", "3", ".", "1", "0", "-", "r", "c", "1">>
  /\ SetCIServerBranchReturnedNil
  /\ configs[CfgCIServerJobs[1]].defaultValue =
       <<"r", "e", "l", "e", "a", "s", "e", "-", "5", ".", "3", ".">>
  /\ configs[CfgPreReleaseJob].defaultValue = Parsed.args[1]

\* C23: a request that is over has been answered with exactly one payload,
\* on every path (the form not parsed, permission refused, a command that
\* writes its own response and returns nil, a command that returns an
\* error, an unknown command, the help), and nothing is written before the
\* request is over
C23_ExactlyOneResponse ==
  /\ hpc = "done" => Len(responses) = 1
  /\ hpc # "done" => responses = <<>>

\* a command that writes its own response and returns nil
C23_Witness ==
  /\ hpc = "done"
  /\ ranHandler = "cut"
  /\ outBuf = <<>>
  /\ Len(responses) = 1
  /\ responses[1].kind = "standard"
  /\ responses[1].text[1].desc = "Bad version argument. Typo?"

\* the other paths
C23_ParseFailure == ~request.parseOK /\ hpc = "done" /\ Len(responses) = 1
C23_Refused ==
  request.parseOK /\ ~Authorized /\ hpc = "done" /\ Len(responses) = 1
C23_Help == Parsed.cmd = "help" /\ Authorized /\ responses = <<Information>>
C23_HandlerError ==
  Authorized /\ MissingArgument /\ ranHandler = "cut" /\ responses = <<Information>>
C23_Acknowledged ==
  hpc = "done" /\ responses = <<Ack>> /\ bpc = "done" /\ Len(steps) = 6

====
